---------------------------- MODULE Spec2Model ----------------------------
(***************************************************************************)
(* Model of the maintenance-backend query gateway (src/main.py): a FastAPI *)
(* application whose handlers each open one PostgreSQL connection, run one *)
(* SELECT, close the connection and turn the rows into an HTTP response.   *)
(*                                                                         *)
(* Time is counted in ticks; TicksPerHour ticks make one hour.  A table is *)
(* the sequence of its rows in the order a sequential scan yields them: a  *)
(* SELECT without ORDER BY returns its rows in that order, and the initial *)
(* states range over the orders.  The id of dead_nodes is a key.  The      *)
(* tables are written by others only and stay as they are while the        *)
(* requests of one behaviour are handled.                                  *)
(***************************************************************************)
EXTENDS Integers, Sequences, FiniteSets, TLC

(***************************************************************************)
(* Bounds of the model.                                                    *)
(***************************************************************************)
NumReq == 2          \* requests handled (concurrently) in one behaviour
MaxTicks == 1        \* ticks the database clock advances in one behaviour
TicksPerHour == 2    \* resolution of the clock
SmallCopies == 5     \* a seed table repeated this often: about ten rows
BulkCopies == 51     \* a seed table repeated this often: more rows than the cap

(***************************************************************************)
(* Program constants.                                                      *)
(***************************************************************************)
DefaultHoursByVertical == 3    \* Query(3, ...)   of /dead_nodes/by_vertical
DefaultHours == 24             \* Query(24, ...)  of the other windowed routes
DefaultLimit == 1              \* Query(1, ...)   of /nan_analysis
ByVerticalLimit == 100         \* LIMIT 100       of /dead_nodes/by_vertical
HTTP_OK == 200
HTTP_NOT_FOUND == 404
HTTP_UNPROCESSABLE == 422      \* FastAPI's request validation error
HTTP_SERVER_ERROR == 500

Req == 1..NumReq

\* SQL NULL, which the driver hands to Python as None.
NULL == "<NULL>"

Min(a, b) == IF a <= b THEN a ELSE b

(***************************************************************************)
(* PostgreSQL's evaluation of the SQL text of the handlers.                *)
(***************************************************************************)
\* column = %s : never true of a NULL column.
SqlEq(col, param) == col # NULL /\ col = param

\* NOW() - INTERVAL '%s hours', with %s an integer (negative ones included).
WindowStart(t, hours) == t - hours * TicksPerHour

\* InWindow with > for >=.
InWindowStrict(ts, t, hours) == ts > WindowStart(t, hours)

\* time column >= NOW() - INTERVAL '%s hours'
InWindow(ts, t, hours) == ts >= WindowStart(t, hours)

\* LIMIT n, n >= 0
Limit(rows, n) == SubSeq(rows, 1, Min(n, Len(rows)))

\* ORDER BY id DESC
OrderByIdDesc(rows) == SortSeq(rows, LAMBDA a, b : a.id > b.id)

\* SELECT DISTINCT col: one row per value (NULL is one value), here in the
\* order of first occurrence.
RECURSIVE DistinctFrom(_, _, _)
DistinctFrom(vals, i, seen) ==
    IF i > Len(vals) THEN <<>>
    ELSE IF vals[i] \in seen THEN DistinctFrom(vals, i + 1, seen)
    ELSE <<vals[i]>> \o DistinctFrom(vals, i + 1, seen \cup {vals[i]})

\* QueryLatest with ORDER BY id (ascending) LIMIT 1.
QueryLatestAscending(tbl, node_id) ==
    Limit(SortSeq(SelectSeq(tbl, LAMBDA r : SqlEq(r.node_id, node_id)),
                  LAMBDA a, b : a.id < b.id), 1)

\* SELECT * FROM public.dead_nodes WHERE node_id = %s ORDER BY id DESC LIMIT 1
QueryLatest(tbl, node_id) ==
    Limit(OrderByIdDesc(SelectSeq(tbl, LAMBDA r : SqlEq(r.node_id, node_id))), 1)

\* SELECT DISTINCT vertical_name FROM public.dead_nodes
QueryVerticals(tbl) ==
    LET vals == DistinctFrom([i \in 1..Len(tbl) |-> tbl[i].vertical_name], 1, {})
    IN  [i \in 1..Len(vals) |-> [vertical_name |-> vals[i]]]

\* QueryByVertical with the cap applied to the rows before they are ordered.
QueryByVerticalCapFirst(tbl, vertical_name, hours, t) ==
    OrderByIdDesc(Limit(SelectSeq(tbl,
              LAMBDA r : SqlEq(r.vertical_name, vertical_name)
                         /\ InWindow(r.timestamp, t, hours)),
          ByVerticalLimit))

\* SELECT * FROM public.dead_nodes WHERE vertical_name = %s
\*   AND timestamp >= NOW() - INTERVAL '%s hours' ORDER BY id DESC LIMIT 100
QueryByVertical(tbl, vertical_name, hours, t) ==
    Limit(OrderByIdDesc(SelectSeq(tbl,
              LAMBDA r : SqlEq(r.vertical_name, vertical_name)
                         /\ InWindow(r.timestamp, t, hours))),
          ByVerticalLimit)

\* SELECT * FROM public.outlier_data WHERE node_id = %s
\*   AND timestamp_column >= NOW() - INTERVAL '%s hours'
QueryOutlier(tbl, node_id, hours, t) ==
    SelectSeq(tbl, LAMBDA r : SqlEq(r.node_id, node_id)
                              /\ InWindow(r.timestamp_column, t, hours))

\* SELECT * FROM frequency_analysis WHERE node = %s
\*   AND timestamp >= NOW() - INTERVAL '%s hours'
QueryFrequency(tbl, node, hours, t) ==
    SelectSeq(tbl, LAMBDA r : SqlEq(r.node, node)
                              /\ InWindow(r.timestamp, t, hours))

\* QueryNan without its LIMIT clause.
QueryNanNoLimit(tbl, node, hours, limit, t) ==
    SelectSeq(tbl, LAMBDA r : SqlEq(r.node, node)
                              /\ InWindow(r.timestamp_column, t, hours))

\* SELECT * FROM nan_analysis WHERE node = %s
\*   AND timestamp_column >= NOW() - INTERVAL '%s hours' LIMIT %s
QueryNan(tbl, node, hours, limit, t) ==
    Limit(SelectSeq(tbl, LAMBDA r : SqlEq(r.node, node)
                                    /\ InWindow(r.timestamp_column, t, hours)),
          limit)


(***************************************************************************)
(* Requests.  A request is a path and its query string, a function from    *)
(* the names of the parameters that were sent to their values.             *)
(***************************************************************************)
ROOT == "/"
LATEST == "/dead_nodes/latest"
VERTICALS == "/dead_nodes/verticals"
BY_VERTICAL == "/dead_nodes/by_vertical"
OUTLIER == "/outlier_data"
FREQUENCY == "/frequency_analysis"
NAN == "/nan_analysis"

DataPaths == {LATEST, VERTICALS, BY_VERTICAL, OUTLIER, FREQUENCY, NAN}
WindowedPaths == {BY_VERTICAL, OUTLIER, FREQUENCY, NAN}

\* RequiredParams with node of /nan_analysis declared with a default.
RequiredParamsNodeOptional(path) ==
    CASE path = LATEST      -> {"node_id"}
      [] path = BY_VERTICAL -> {"vertical_name"}
      [] path = OUTLIER     -> {"node_id"}
      [] path = FREQUENCY   -> {"node"}
      [] OTHER              -> {}

\* The parameters declared without a default: FastAPI requires them.
RequiredParams(path) ==
    CASE path = LATEST      -> {"node_id"}
      [] path = BY_VERTICAL -> {"vertical_name"}
      [] path = OUTLIER     -> {"node_id"}
      [] path = FREQUENCY   -> {"node"}
      [] path = NAN         -> {"node"}
      [] OTHER              -> {}

\* FastAPI's validation of the query string: a str parameter accepts every
\* string that was sent, the empty one included; only absence is an error.
Valid(rq) == RequiredParams(rq.path) \subseteq DOMAIN rq.args

\* The value of the required string parameter of a request.
Key(rq) == rq.args[CHOOSE n \in RequiredParams(rq.path) : TRUE]

\* hours: int = Query(default)
Hours(rq) ==
    IF "hours" \in DOMAIN rq.args THEN rq.args["hours"]
    ELSE IF rq.path = BY_VERTICAL THEN DefaultHoursByVertical
    ELSE DefaultHours

\* limit: int = Query(1)
LimitArg(rq) ==
    IF "limit" \in DOMAIN rq.args THEN rq.args["limit"] ELSE DefaultLimit

(***************************************************************************)
(* State.                                                                  *)
(***************************************************************************)
VARIABLES
    dead_nodes,          \* public.dead_nodes: rows [id, node_id, vertical_name, timestamp]
    outlier_data,        \* public.outlier_data: rows [node_id, timestamp_column]
    frequency_analysis,  \* frequency_analysis: rows [node, timestamp]
    nan_analysis,        \* nan_analysis: rows [node, timestamp_column]
    now,                 \* the database clock, NOW()
    request,             \* request[r]: the request in slot r
    pc,                  \* pc[r]: where the handling of request r stands
    conn,                \* conn[r]: the local conn of execute_query (0: unbound)
    conns,               \* every connection psycopg2.connect has returned:
                         \*   [openedBy, open, log]
    outcome,             \* outcome[r]: what execute_query returned or raised
    response,            \* response[r]: the HTTP response (status 0: none yet)
    history,             \* history[r]: the driver calls made for r, in order
    queryTime            \* queryTime[r]: NOW() of r's query

tables == <<dead_nodes, outlier_data, frequency_analysis, nan_analysis>>
vars == <<dead_nodes, outlier_data, frequency_analysis, nan_analysis, now,
          request, pc, conn, conns, outcome, response, history, queryTime>>

NoArgs == [n \in {} |-> 0]
NoRequest == [path |-> "", args |-> NoArgs]
NoOutcome == [kind |-> "none"]
NoResponse == [status |-> 0]

\* The rows the request's SELECT yields at time t.
RunQuery(rq, t) ==
    CASE rq.path = LATEST      -> QueryLatest(dead_nodes, Key(rq))
      [] rq.path = VERTICALS   -> QueryVerticals(dead_nodes)
      [] rq.path = BY_VERTICAL -> QueryByVertical(dead_nodes, Key(rq), Hours(rq), t)
      [] rq.path = OUTLIER     -> QueryOutlier(outlier_data, Key(rq), Hours(rq), t)
      [] rq.path = FREQUENCY   -> QueryFrequency(frequency_analysis, Key(rq), Hours(rq), t)
      [] rq.path = NAN         -> QueryNan(nan_analysis, Key(rq), Hours(rq), LimitArg(rq), t)

\* Statements PostgreSQL always rejects: LIMIT with a negative count.
Rejected(rq) == rq.path = NAN /\ LimitArg(rq) < 0

\* The texts of the errors the driver raises.
ConnectErrors == {"connection refused"}
QueryErrors == {"server closed the connection unexpectedly"}
LimitError == "LIMIT must not be negative"

(***************************************************************************)
(* The handlers' code after execute_query has returned its rows.           *)
(***************************************************************************)
\* get_latest_dead_node, after execute_query
get_latest_dead_node(rows, node_id) ==
    IF rows = <<>>
    THEN [status |-> HTTP_NOT_FOUND,
          detail |-> <<"No data found for node_id: ", node_id>>]
    ELSE [status |-> HTTP_OK, body |-> rows[1]]

\* Python's truth value of a column that holds a string or None.
Truthy(v) == v # NULL /\ v # ""

\* get_vertical_names with the test "is not None" for the truth value.
get_vertical_names_not_none(rows) ==
    LET kept == SelectSeq(rows, LAMBDA row : row.vertical_name # NULL)
    IN  [status |-> HTTP_OK,
         body |-> [i \in 1..Len(kept) |-> kept[i].vertical_name]]

\* get_vertical_names, after execute_query
get_vertical_names(rows) ==
    LET kept == SelectSeq(rows, LAMBDA row : Truthy(row.vertical_name))
    IN  [status |-> HTTP_OK,
         body |-> [i \in 1..Len(kept) |-> kept[i].vertical_name]]

\* get_dead_nodes_by_vertical, get_outlier_data, get_frequency_analysis,
\* get_nan_analysis: return result
RowsResponse(rows) == [status |-> HTTP_OK, body |-> rows]

HandlerResponse(rq, rows) ==
    CASE rq.path = LATEST    -> get_latest_dead_node(rows, Key(rq))
      [] rq.path = VERTICALS -> get_vertical_names(rows)
      [] OTHER               -> RowsResponse(rows)

\* HTTPException(status_code=500, detail=f"...: {str(e)}")
ConnectionError(e) ==
    [kind |-> "raised", status |-> HTTP_SERVER_ERROR,
     detail |-> <<"Database connection error: ", e>>]
QueryError(e) ==
    [kind |-> "raised", status |-> HTTP_SERVER_ERROR,
     detail |-> <<"Query execution error: ", e>>]

(***************************************************************************)
(* Actions.                                                                *)
(***************************************************************************)
\* An entry of history: a call to the driver and the text of the error it
\* raised ("": none).  An entry of a connection's log: who called what on it.
Call(name, e) == [call |-> name, error |-> e]
Use(r, name) == [by |-> r, call |-> name]

\* read_root: the fixed welcome payload.
read_root(r) ==
    /\ pc[r] = "arriving"
    /\ request[r].path = ROOT
    /\ response' = [response EXCEPT ![r] =
           [status |-> HTTP_OK,
            body |-> [message |-> "Welcome to Maintenance Backend API"]]]
    /\ pc' = [pc EXCEPT ![r] = "done"]
    /\ UNCHANGED <<tables, now, request, conn, conns, outcome, history, queryTime>>

\* FastAPI answers a request that lacks a required parameter itself; the
\* handler is not called.
RejectRequest(r) ==
    /\ pc[r] = "arriving"
    /\ request[r].path \in DataPaths
    /\ ~Valid(request[r])
    /\ response' = [response EXCEPT ![r] =
           [status |-> HTTP_UNPROCESSABLE,
            detail |-> <<"missing", RequiredParams(request[r].path)>>]]
    /\ pc' = [pc EXCEPT ![r] = "done"]
    /\ UNCHANGED <<tables, now, request, conn, conns, outcome, history, queryTime>>

\* The handler is called and calls execute_query.
CallHandler(r) ==
    /\ pc[r] = "arriving"
    /\ request[r].path \in DataPaths
    /\ Valid(request[r])
    /\ pc' = [pc EXCEPT ![r] = "connect"]
    /\ UNCHANGED <<tables, now, request, conn, conns, outcome, response,
                   history, queryTime>>

\* get_db_connection: psycopg2.connect returns a new connection.
get_db_connection_returns(r) ==
    /\ pc[r] = "connect"
    /\ conns' = Append(conns, [openedBy |-> r, open |-> TRUE, log |-> <<>>])
    /\ conn' = [conn EXCEPT ![r] = Len(conns) + 1]
    /\ history' = [history EXCEPT ![r] = Append(@, Call("connect", ""))]
    /\ pc' = [pc EXCEPT ![r] = "query"]
    /\ UNCHANGED <<tables, now, request, outcome, response, queryTime>>

\* get_db_connection_raises with a retry: the failed attempt is followed by another one.
get_db_connection_retries(r) ==
    /\ pc[r] = "connect"
    /\ \E e \in ConnectErrors :
           history' = [history EXCEPT ![r] = Append(@, Call("connect", e))]
    /\ UNCHANGED <<tables, now, request, pc, conn, conns, outcome, response,
                   queryTime>>

\* get_db_connection: psycopg2.connect raises; the HTTPException leaves
\* execute_query before its try statement.
get_db_connection_raises(r) ==
    /\ pc[r] = "connect"
    /\ \E e \in ConnectErrors :
           /\ outcome' = [outcome EXCEPT ![r] = ConnectionError(e)]
           /\ history' = [history EXCEPT ![r] = Append(@, Call("connect", e))]
    /\ pc' = [pc EXCEPT ![r] = "respond"]
    /\ UNCHANGED <<tables, now, request, conn, conns, response, queryTime>>

\* QueryConn with conn a module-level variable: the connection opened last.
QueryConnShared(r) == Len(conns)

\* The connection execute_query runs its statement on.
QueryConn(r) == conn[r]

\* cursor.execute, cursor.fetchall and the list of dicts, on conn.
execute_query_try(r) ==
    /\ pc[r] = "query"
    /\ ~Rejected(request[r])
    /\ conns[QueryConn(r)].open
    /\ outcome' = [outcome EXCEPT ![r] =
           [kind |-> "returned", rows |-> RunQuery(request[r], now)]]
    /\ conns' = [conns EXCEPT ![QueryConn(r)].log = Append(@, Use(r, "execute"))]
    /\ queryTime' = [queryTime EXCEPT ![r] = now]
    /\ history' = [history EXCEPT ![r] = Append(@, Call("query", ""))]
    /\ pc' = [pc EXCEPT ![r] = "close"]
    /\ UNCHANGED <<tables, now, request, conn, response>>

\* execute_query_except with an except clause that returns an empty list instead of
\* raising.
execute_query_except_returns(r) ==
    /\ pc[r] = "query"
    /\ \E e \in (IF Rejected(request[r]) THEN {LimitError} ELSE QueryErrors) :
           history' = [history EXCEPT ![r] = Append(@, Call("query", e))]
    /\ outcome' = [outcome EXCEPT ![r] = [kind |-> "returned", rows |-> <<>>]]
    /\ conns' = [conns EXCEPT ![QueryConn(r)].log = Append(@, Use(r, "execute"))]
    /\ queryTime' = [queryTime EXCEPT ![r] = now]
    /\ pc' = [pc EXCEPT ![r] = "close"]
    /\ UNCHANGED <<tables, now, request, conn, response>>

\* cursor.execute or cursor.fetchall raises: the except clause raises the
\* HTTPException.
execute_query_except(r) ==
    /\ pc[r] = "query"
    /\ \E e \in (IF Rejected(request[r]) THEN {LimitError}
                 ELSE IF conns[QueryConn(r)].open THEN QueryErrors
                 ELSE {"connection already closed"}) :
           /\ outcome' = [outcome EXCEPT ![r] = QueryError(e)]
           /\ history' = [history EXCEPT ![r] = Append(@, Call("query", e))]
    /\ conns' = [conns EXCEPT ![QueryConn(r)].log = Append(@, Use(r, "execute"))]
    /\ queryTime' = [queryTime EXCEPT ![r] = now]
    /\ pc' = [pc EXCEPT ![r] = "close"]
    /\ UNCHANGED <<tables, now, request, conn, response>>

\* The connection the finally clause closes.
CloseConn(r) == conn[r]

\* execute_query_finally with conn.close() at the end of the try block instead of in a
\* finally clause: an exception skips it.
execute_query_close_in_try(r) ==
    /\ pc[r] = "close"
    /\ IF outcome[r].kind = "raised"
       THEN UNCHANGED <<conns, history>>
       ELSE /\ conns' = [conns EXCEPT ![CloseConn(r)].open = FALSE,
                              ![CloseConn(r)].log = Append(@, Use(r, "close"))]
            /\ history' = [history EXCEPT ![r] = Append(@, Call("close", ""))]
    /\ pc' = [pc EXCEPT ![r] = "respond"]
    /\ UNCHANGED <<tables, now, request, conn, outcome, response, queryTime>>

\* finally: conn.close(), after the return value or the exception is set.
execute_query_finally(r) ==
    /\ pc[r] = "close"
    /\ conns' = [conns EXCEPT ![CloseConn(r)].open = FALSE,
                              ![CloseConn(r)].log = Append(@, Use(r, "close"))]
    /\ history' = [history EXCEPT ![r] = Append(@, Call("close", ""))]
    /\ pc' = [pc EXCEPT ![r] = "respond"]
    /\ UNCHANGED <<tables, now, request, conn, outcome, response, queryTime>>

\* The response of a request whose execute_query call has ended: the
\* HTTPException it raised, or what the handler makes of the rows.
ResponseOf(rq, out) ==
    IF out.kind = "raised"
    THEN [status |-> out.status, detail |-> out.detail]
    ELSE HandlerResponse(rq, out.rows)

Respond(r) ==
    /\ pc[r] = "respond"
    /\ response' = [response EXCEPT ![r] = ResponseOf(request[r], outcome[r])]
    /\ pc' = [pc EXCEPT ![r] = "done"]
    /\ UNCHANGED <<tables, now, request, conn, conns, outcome, history, queryTime>>

\* Time passes: NOW() of a later statement is later.
Tick ==
    /\ now < MaxTicks
    /\ now' = now + 1
    /\ UNCHANGED <<tables, request, pc, conn, conns, outcome, response,
                   history, queryTime>>

Next ==
    \/ \E r \in Req :
          \/ read_root(r)
          \/ RejectRequest(r)
          \/ CallHandler(r)
          \/ get_db_connection_returns(r)
          \/ get_db_connection_raises(r)
          \/ execute_query_try(r)
          \/ execute_query_except(r)
          \/ execute_query_finally(r)
          \/ Respond(r)
    \/ Tick

(***************************************************************************)
(* Initial states: the tables' contents and the requests in flight.        *)
(***************************************************************************)
\* Time columns: the start of the default window, one hour ago, now, and
\* in one hour, as of the initial NOW() = 0.
TsValues(defaultHours) ==
    {-(defaultHours * TicksPerHour), -TicksPerHour, 0, TicksPerHour}

\* Key columns of the windowed tables, and the values a request asks for.
TableKeys == {"", "n1"}
KeyValues == {"", "n1", "n2"}
HoursValues == {-1, 0, 1}
LimitValues == {-1, 0, 5}

OutlierRows == {[node_id |-> k, timestamp_column |-> t] :
                    k \in TableKeys, t \in TsValues(DefaultHours)}
FrequencyRows == {[node |-> k, timestamp |-> t] :
                    k \in TableKeys, t \in TsValues(DefaultHours)}
NanRows == {[node |-> k, timestamp_column |-> t] :
                    k \in TableKeys, t \in TsValues(DefaultHours)}
\* Rows of dead_nodes without their id.
VerticalRows == {[node_id |-> "n1", vertical_name |-> v, timestamp |-> t] :
                    v \in {"", "a"}, t \in TsValues(DefaultHoursByVertical)}
NodeRows == {[node_id |-> n, vertical_name |-> "a", timestamp |-> 0] :
                    n \in {NULL, "", "n1"}}
NameRows == {[node_id |-> "n1", vertical_name |-> v, timestamp |-> 0] :
                    v \in {NULL, "", "a", "b"}}

\* The tables of at most two, and of at most three, rows.
UpToTwo(Rows) ==
    {<<>>} \cup {<<a>> : a \in Rows} \cup {<<a, b>> : a \in Rows, b \in Rows}
UpToThree(Rows) ==
    UpToTwo(Rows) \cup {<<a, b, c>> : a \in Rows, b \in Rows, c \in Rows}

\* The surrogate id is a key: the rows of a table carry the ids 1..n, in
\* any order.
IdOrders(n) == {f \in [1..n -> 1..n] : \A i, j \in 1..n : f[i] = f[j] => i = j}
WithIds(rows) ==
    {[i \in 1..Len(rows) |->
         [id |-> f[i], node_id |-> rows[i].node_id,
          vertical_name |-> rows[i].vertical_name,
          timestamp |-> rows[i].timestamp]] : f \in IdOrders(Len(rows))}

\* A table made of n copies of a seed table, one after the other.
Repeat(seed, n) ==
    [i \in 1..(n * Len(seed)) |-> seed[((i - 1) % Len(seed)) + 1]]
\* The same for dead_nodes, each copy with ids of its own.
RepeatDead(seed, n) ==
    [i \in 1..(n * Len(seed)) |->
        [seed[((i - 1) % Len(seed)) + 1] EXCEPT
            !.id = @ + ((i - 1) \div Len(seed)) * Len(seed)]]

WindowTables(Rows, copies) ==
    {Repeat(seed, n) : seed \in UpToTwo(Rows), n \in {1, copies}}
ByVerticalTables ==
    {RepeatDead(seed, n) :
        seed \in UNION {WithIds(rows) : rows \in UpToTwo(VerticalRows)},
        n \in {1, BulkCopies}}
LatestTables == UNION {WithIds(rows) : rows \in UpToThree(NodeRows)}
VerticalsTables == UNION {WithIds(rows) : rows \in UpToThree(NameRows)}

\* Query strings: a parameter is sent with one of its values, or not sent.
OptArg(name, values) == {NoArgs} \cup {name :> v : v \in values}
Requests(path) ==
    CASE path = LATEST ->
           {[path |-> path, args |-> k] : k \in OptArg("node_id", KeyValues)}
      [] path = BY_VERTICAL ->
           {[path |-> path, args |-> k @@ h] :
               k \in OptArg("vertical_name", {"", "a", "b"}),
               h \in OptArg("hours", HoursValues)}
      [] path = OUTLIER ->
           {[path |-> path, args |-> k @@ h] :
               k \in OptArg("node_id", KeyValues),
               h \in OptArg("hours", HoursValues)}
      [] path = FREQUENCY ->
           {[path |-> path, args |-> k @@ h] :
               k \in OptArg("node", KeyValues),
               h \in OptArg("hours", HoursValues)}
      [] path = NAN ->
           {[path |-> path, args |-> (k @@ h) @@ l] :
               k \in OptArg("node", KeyValues),
               h \in OptArg("hours", HoursValues),
               l \in OptArg("limit", LimitValues)}
      [] OTHER -> {[path |-> path, args |-> NoArgs]}

\* Nothing has been done yet for the requests in flight.
InitHandling(rqs) ==
    /\ now = 0
    /\ request = rqs
    /\ pc = [r \in Req |-> IF rqs[r] = NoRequest THEN "none" ELSE "arriving"]
    /\ conn = [r \in Req |-> 0]
    /\ conns = <<>>
    /\ outcome = [r \in Req |-> NoOutcome]
    /\ response = [r \in Req |-> NoResponse]
    /\ history = [r \in Req |-> <<>>]
    /\ queryTime = [r \in Req |-> 0]

\* One request, of any route and with any query string, against any
\* content of the table its route reads.
InitQuery ==
    /\ \E path \in DataPaths \cup {ROOT} : \E rq \in Requests(path) :
          /\ InitHandling([r \in Req |-> IF r = 1 THEN rq ELSE NoRequest])
          /\ dead_nodes \in
                CASE path = LATEST      -> LatestTables
                  [] path = VERTICALS   -> VerticalsTables
                  [] path = BY_VERTICAL -> ByVerticalTables
                  [] OTHER              -> {<<>>}
          /\ outlier_data \in
                IF path = OUTLIER THEN WindowTables(OutlierRows, BulkCopies)
                ELSE {<<>>}
          /\ frequency_analysis \in
                IF path = FREQUENCY THEN WindowTables(FrequencyRows, BulkCopies)
                ELSE {<<>>}
          /\ nan_analysis \in
                IF path = NAN THEN WindowTables(NanRows, SmallCopies)
                ELSE {<<>>}

QuerySpec == InitQuery /\ [][Next]_vars

\* The tables of the concurrent runs: a row at the start of each default
\* window, which the first tick moves out of it, and a row of now.
SomeDeadNodes ==
    <<[id |-> 2, node_id |-> "n1", vertical_name |-> "a", timestamp |-> 0],
      [id |-> 1, node_id |-> "n1", vertical_name |-> "a",
       timestamp |-> -(DefaultHoursByVertical * TicksPerHour)],
      [id |-> 3, node_id |-> "", vertical_name |-> NULL, timestamp |-> 0]>>
SomeOutlierData ==
    <<[node_id |-> "n1", timestamp_column |-> -(DefaultHours * TicksPerHour)],
      [node_id |-> "n1", timestamp_column |-> 0]>>
SomeFrequencyAnalysis ==
    <<[node |-> "n1", timestamp |-> -TicksPerHour],
      [node |-> "n1", timestamp |-> 0]>>
SomeNanAnalysis ==
    <<[node |-> "n1", timestamp_column |-> -(DefaultHours * TicksPerHour)],
      [node |-> "n1", timestamp_column |-> 0]>>

\* Request 1 is of any route.
FirstRequests ==
    {[path |-> ROOT, args |-> NoArgs],
     [path |-> LATEST, args |-> NoArgs],
     [path |-> LATEST, args |-> "node_id" :> "n1"],
     [path |-> VERTICALS, args |-> NoArgs],
     [path |-> BY_VERTICAL, args |-> "vertical_name" :> "a"],
     [path |-> OUTLIER, args |-> "node_id" :> "n1"],
     [path |-> FREQUENCY, args |-> ("node" :> "n1") @@ ("hours" :> 1)],
     [path |-> NAN, args |-> ("node" :> "n1") @@ ("limit" :> 5)]}
\* The requests handled beside it: one that finds nothing, one whose rows
\* depend on the time of its query, one whose statement is rejected.
OtherRequests ==
    {[path |-> LATEST, args |-> "node_id" :> "n2"],
     [path |-> BY_VERTICAL, args |-> "vertical_name" :> "a"],
     [path |-> NAN, args |-> ("node" :> "n1") @@ ("limit" :> -1)]}

Init ==
    /\ \E rqs \in [Req -> FirstRequests \cup OtherRequests] :
          /\ rqs[1] \in FirstRequests
          /\ \A r \in Req \ {1} : rqs[r] \in OtherRequests
          /\ InitHandling(rqs)
    /\ dead_nodes = SomeDeadNodes
    /\ outlier_data = SomeOutlierData
    /\ frequency_analysis = SomeFrequencyAnalysis
    /\ nan_analysis = SomeNanAnalysis

Spec == Init /\ [][Next]_vars

(***************************************************************************)
(* Properties.                                                             *)
(***************************************************************************)
Responded(r) == response[r].status # 0
ConnsOpenedBy(r) == {c \in 1..Len(conns) : conns[c].openedBy = r}
OpenConns == {c \in 1..Len(conns) : conns[c].open}
Failed(r, name) ==
    \E i \in 1..Len(history[r]) :
        history[r][i].call = name /\ history[r][i].error # ""

\* C1: once a request to a data-returning route has its response (200, 404
\* or 500), and once it is done, every connection it opened is closed.
C1_ClosedBeforeResponse ==
    \A r \in Req :
        (Responded(r) \/ pc[r] = "done") =>
            \A c \in ConnsOpenedBy(r) : ~conns[c].open

\* C1 happens: a 404 of /dead_nodes/latest and a 500 after a failed query,
\* each of a request that had opened a connection.
C1_Witness ==
    \E r, q \in Req :
        /\ request[r].path = LATEST /\ response[r].status = HTTP_NOT_FOUND
        /\ ConnsOpenedBy(r) # {}
        /\ response[q].status = HTTP_SERVER_ERROR /\ Failed(q, "query")
        /\ ConnsOpenedBy(q) # {}

\* C4: a request whose connection attempt or query failed is answered 500
\* with the text of the driver's error, and with no rows.
C4_FailureIsServerError ==
    \A r \in Req :
        Responded(r) =>
            /\ Failed(r, "connect") =>
                  /\ response[r].status = HTTP_SERVER_ERROR
                  /\ response[r].detail =
                        <<"Database connection error: ", history[r][1].error>>
            /\ Failed(r, "query") =>
                  /\ response[r].status = HTTP_SERVER_ERROR
                  /\ response[r].detail =
                        <<"Query execution error: ", history[r][2].error>>
            /\ (Failed(r, "connect") \/ Failed(r, "query")) =>
                  "body" \notin DOMAIN response[r]

\* C4 happens: the query of /dead_nodes/latest fails while no row matches,
\* and the answer is 500, not 404.
C4_Witness ==
    \E r \in Req :
        /\ request[r].path = LATEST
        /\ Failed(r, "query")
        /\ response[r].status = HTTP_SERVER_ERROR
        /\ \A i \in 1..Len(dead_nodes) :
              dead_nodes[i].node_id # request[r].args["node_id"]

\* C9: the driver calls made for a request are a prefix of connect, query,
\* close; a failed connect is the only call; a finished handler has made
\* all three or the failed connect alone; and on no connection is a
\* statement executed twice or after close.
C9_OneAttemptInOrder ==
    /\ \A r \in Req :
          LET h == history[r] IN
          /\ Len(h) <= 3
          /\ Len(h) >= 1 => h[1].call = "connect"
          /\ Len(h) >= 2 => h[1].error = "" /\ h[2].call = "query"
          /\ Len(h) >= 3 => h[3].call = "close" /\ h[3].error = ""
          /\ pc[r] = "done" /\ request[r].path \in DataPaths /\ Valid(request[r])
                => \/ Len(h) = 3
                   \/ Len(h) = 1 /\ h[1].error # ""
    /\ \A c \in 1..Len(conns) :
          LET l == conns[c].log IN
          /\ Cardinality({i \in 1..Len(l) : l[i].call = "execute"}) <= 1
          /\ \A i, j \in 1..Len(l) :
                i < j => ~(l[i].call = "close" /\ l[j].call = "execute")

\* C9 happens: one request ended on its failed connection attempt, another
\* on connect, failed query, close.
C9_Witness ==
    \E r, q \in Req :
        /\ pc[r] = "done" /\ Len(history[r]) = 1 /\ Failed(r, "connect")
        /\ pc[q] = "done" /\ Len(history[q]) = 3 /\ Failed(q, "query")

\* The response request r gets when it is handled alone, with the same
\* outcome of its own driver calls, against the tables as of its query.
AloneResponse(r) ==
    LET rq == request[r] IN
    IF rq.path = ROOT
    THEN [status |-> HTTP_OK,
          body |-> [message |-> "Welcome to Maintenance Backend API"]]
    ELSE IF ~Valid(rq)
    THEN [status |-> HTTP_UNPROCESSABLE,
          detail |-> <<"missing", RequiredParams(rq.path)>>]
    ELSE IF Failed(r, "connect")
    THEN [status |-> HTTP_SERVER_ERROR,
          detail |-> <<"Database connection error: ", history[r][1].error>>]
    ELSE IF Failed(r, "query")
    THEN [status |-> HTTP_SERVER_ERROR,
          detail |-> <<"Query execution error: ", history[r][2].error>>]
    ELSE HandlerResponse(rq, RunQuery(rq, queryTime[r]))

InFlight == {r \in Req : pc[r] \in {"arriving", "connect", "query", "close", "respond"}}

\* C10: whatever the interleaving, a connection is used and closed by the
\* request that opened it only, there are at most as many open connections
\* as requests in flight (none once all are done), and a response is the
\* one the request gets alone.
C10_RequestsIndependent ==
    /\ \A c \in 1..Len(conns) : \A i \in 1..Len(conns[c].log) :
          conns[c].log[i].by = conns[c].openedBy
    /\ Cardinality(OpenConns) <= Cardinality(InFlight)
    /\ InFlight = {} => OpenConns = {}
    /\ \A r \in Req : Responded(r) => response[r] = AloneResponse(r)

\* C10 happens: r connected before q, q's query failed, time passed, and
\* then r's query succeeded; both are answered.
C10_Witness ==
    \E r, q \in Req :
        /\ conn[r] # 0 /\ conn[q] # 0 /\ conn[r] < conn[q]
        /\ queryTime[q] < queryTime[r]
        /\ response[r].status = HTTP_OK
        /\ response[q].status = HTTP_SERVER_ERROR /\ Failed(q, "query")

\* The required string parameter of each route.
RequiredName(path) ==
    CASE path \in {LATEST, OUTLIER} -> "node_id"
      [] path = BY_VERTICAL         -> "vertical_name"
      [] path \in {FREQUENCY, NAN}  -> "node"
KeyedPaths == {LATEST, BY_VERTICAL, OUTLIER, FREQUENCY, NAN}
Missing(r) ==
    request[r].path \in KeyedPaths
        /\ RequiredName(request[r].path) \notin DOMAIN request[r].args
Empty(r) ==
    request[r].path \in KeyedPaths
        /\ RequiredName(request[r].path) \in DOMAIN request[r].args
        /\ request[r].args[RequiredName(request[r].path)] = ""
NothingDone(r) ==
    history[r] = <<>> /\ conn[r] = 0 /\ ConnsOpenedBy(r) = {}

LatestMatches(r) ==
    {i \in 1..Len(dead_nodes) :
        dead_nodes[i].node_id = request[r].args["node_id"]}

\* C3: /dead_nodes/latest answers 200 with the row of the largest id among
\* the rows of the requested node_id, and 404, naming the node_id, when and
\* only when its query found no row of that node_id.
C3_LatestIsMaxId ==
    \A r \in Req :
        (request[r].path = LATEST /\ Responded(r)) =>
            /\ response[r].status = HTTP_OK =>
                  \E i \in LatestMatches(r) :
                      /\ response[r].body = dead_nodes[i]
                      /\ \A j \in LatestMatches(r) :
                            dead_nodes[j].id <= dead_nodes[i].id
            /\ response[r].status = HTTP_NOT_FOUND =>
                  /\ LatestMatches(r) = {}
                  /\ response[r].detail =
                        <<"No data found for node_id: ", request[r].args["node_id"]>>
            /\ (Len(history[r]) = 3 /\ ~Failed(r, "query")) =>
                  /\ response[r].status \in {HTTP_OK, HTTP_NOT_FOUND}
                  /\ response[r].status = HTTP_NOT_FOUND <=> LatestMatches(r) = {}

\* C3 happens: two rows match, the larger id is not the last row scanned,
\* and a row of another node_id has a larger id still.
C3_Witness ==
    \E r \in Req :
        /\ request[r].path = LATEST /\ response[r].status = HTTP_OK
        /\ Cardinality(LatestMatches(r)) = 2
        /\ \E i, j \in LatestMatches(r) :
              i < j /\ dead_nodes[i].id > dead_nodes[j].id
        /\ \E k \in 1..Len(dead_nodes) :
              /\ k \notin LatestMatches(r)
              /\ dead_nodes[k].id > response[r].body.id

\* The table a windowed route reads, and its key and time columns.
TableOf(path) ==
    CASE path = BY_VERTICAL -> dead_nodes
      [] path = OUTLIER     -> outlier_data
      [] path = FREQUENCY   -> frequency_analysis
      [] path = NAN         -> nan_analysis
KeyOf(path, row) ==
    CASE path = BY_VERTICAL -> row.vertical_name
      [] path = OUTLIER     -> row.node_id
      [] path = FREQUENCY   -> row.node
      [] path = NAN         -> row.node
TimeOf(path, row) ==
    CASE path = BY_VERTICAL -> row.timestamp
      [] path = OUTLIER     -> row.timestamp_column
      [] path = FREQUENCY   -> row.timestamp
      [] path = NAN         -> row.timestamp_column

\* now - h hours of request r's query.
StartOf(r) == queryTime[r] - Hours(request[r]) * TicksPerHour
\* Row matches the key of request r and lies in its window.
Wanted(r, row) ==
    /\ KeyOf(request[r].path, row) = request[r].args[RequiredName(request[r].path)]
    /\ TimeOf(request[r].path, row) >= StartOf(r)
WantedRows(r) ==
    {i \in 1..Len(TableOf(request[r].path)) :
        Wanted(r, TableOf(request[r].path)[i])}
Count(rows, x) == Cardinality({i \in 1..Len(rows) : rows[i] = x})
Range(rows) == {rows[i] : i \in 1..Len(rows)}
\* The most rows the route returns (-1: no cap).
CapOf(r) ==
    CASE request[r].path = BY_VERTICAL -> 100
      [] request[r].path = NAN ->
            IF "limit" \in DOMAIN request[r].args
            THEN request[r].args["limit"] ELSE 1
      [] OTHER -> -1

\* C5: every row a windowed route returns is a row of its table that
\* matches the key and has its time column >= now - h hours; a matching row
\* exactly at now - h hours is returned unless the route's cap is reached;
\* /outlier_data and /frequency_analysis return every such row.
C5_WindowedRows ==
    \A r \in Req :
        (request[r].path \in WindowedPaths /\ response[r].status = HTTP_OK) =>
            LET path == request[r].path
                tbl == TableOf(path)
                body == response[r].body
            IN  /\ \A x \in Range(body) :
                      Wanted(r, x) /\ Count(body, x) <= Count(tbl, x)
                /\ \A x \in Range(tbl) :
                      (Wanted(r, x) /\ TimeOf(path, x) = StartOf(r)) =>
                          x \in Range(body) \/ Len(body) = CapOf(r)
                /\ path \in {OUTLIER, FREQUENCY} =>
                      \A x \in Range(tbl) :
                          Wanted(r, x) => Count(body, x) = Count(tbl, x)

\* C5 happens: with negative hours, /outlier_data returns a row exactly at
\* now - h hours and leaves out a row of the same key before it.
C5_Witness ==
    \E r \in Req :
        /\ request[r].path = OUTLIER /\ response[r].status = HTTP_OK
        /\ Hours(request[r]) < 0
        /\ \E x \in Range(response[r].body) : x.timestamp_column = StartOf(r)
        /\ \E x \in Range(outlier_data) :
              /\ x.node_id = request[r].args["node_id"]
              /\ x.timestamp_column < StartOf(r)

\* C6: /dead_nodes/by_vertical returns at most 100 rows, in strictly
\* descending order of id, and when more than 100 rows match they are the
\* 100 of the largest ids.
C6_ByVerticalCapped ==
    \A r \in Req :
        (request[r].path = BY_VERTICAL /\ response[r].status = HTTP_OK) =>
            LET body == response[r].body IN
            /\ Len(body) <= 100
            /\ \A i \in 1..(Len(body) - 1) : body[i].id > body[i + 1].id
            /\ Range(body) \subseteq {dead_nodes[i] : i \in WantedRows(r)}
            /\ Cardinality(WantedRows(r)) > 100 =>
                  /\ Len(body) = 100
                  /\ \A i \in WantedRows(r) :
                        dead_nodes[i] \notin Range(body) =>
                            \A k \in 1..Len(body) : dead_nodes[i].id < body[k].id

\* C6 happens: more than 100 rows match, scanned in another order than
\* descending id, and 100 are returned.
C6_Witness ==
    \E r \in Req :
        /\ request[r].path = BY_VERTICAL /\ response[r].status = HTTP_OK
        /\ Cardinality(WantedRows(r)) > 100
        /\ Len(response[r].body) = 100
        /\ dead_nodes[1].id < dead_nodes[2].id

\* C7: /nan_analysis returns min(limit, m) rows, m the number of rows that
\* match the node and the window, hence never more than limit; it returns
\* rows for no negative limit; without limit it returns at most one row.
C7_NanLimit ==
    \A r \in Req :
        (request[r].path = NAN /\ response[r].status = HTTP_OK) =>
            LET body == response[r].body
                m == Cardinality(WantedRows(r))
            IN  /\ CapOf(r) >= 0
                /\ Len(body) <= CapOf(r)
                /\ Len(body) = Min(CapOf(r), m)
                /\ "limit" \notin DOMAIN request[r].args => Len(body) <= 1

\* C7 happens: 10 rows match, limit=5, 5 rows are returned.
C7_Witness ==
    \E r \in Req :
        /\ request[r].path = NAN /\ response[r].status = HTTP_OK
        /\ "limit" \in DOMAIN request[r].args /\ request[r].args["limit"] = 5
        /\ Cardinality(WantedRows(r)) = 10
        /\ Len(response[r].body) = 5

\* C8: the answer of /dead_nodes/verticals holds no NULL and no empty
\* string, no value twice, only vertical names of the table, and every one
\* of them that is neither NULL nor empty.
C8_VerticalsDistinctNonEmpty ==
    \A r \in Req :
        (request[r].path = VERTICALS /\ response[r].status = HTTP_OK) =>
            LET body == response[r].body
                names == {dead_nodes[i].vertical_name : i \in 1..Len(dead_nodes)}
            IN  /\ \A i \in 1..Len(body) : body[i] # NULL /\ body[i] # ""
                /\ \A i, j \in 1..Len(body) : body[i] = body[j] => i = j
                /\ Range(body) = names \ {NULL, ""}

\* C8 happens: the table holds a name twice and a NULL or empty name.
C8_Witness ==
    \E r \in Req :
        /\ request[r].path = VERTICALS /\ response[r].status = HTTP_OK
        /\ \E i, j \in 1..Len(dead_nodes) :
              /\ i # j
              /\ dead_nodes[i].vertical_name = dead_nodes[j].vertical_name
              /\ dead_nodes[i].vertical_name \notin {NULL, ""}
        /\ \E k \in 1..Len(dead_nodes) : dead_nodes[k].vertical_name \in {NULL, ""}
        /\ Len(response[r].body) = 1

=============================================================================
